---- MODULE Spec2Model ----
(***************************************************************************)
(* Model of src-tauri/src/main.rs: the shared AppState (System handle,     *)
(* static process cache, network tracker, each behind a std::sync::Mutex)  *)
(* and the two commands get_processes and kill_process, dispatched         *)
(* concurrently by the runtime.                                            *)
(*                                                                         *)
(* u64 values are kept modulo Modulus (TLC integers are 32-bit, so the     *)
(* 64-bit width is scaled down; wrap-around, overflow checks and the       *)
(* saturating float-to-integer cast behave as they do at full width).      *)
(* Time is counted in ticks of 1/TicksPerSec second.                       *)
(***************************************************************************)
EXTENDS Integers, Sequences, FiniteSets, TLC

\* ---------------------------------------------------------------- bounds
Modulus == 4096
Modulus32 == 64
TicksPerSec == 1
MaxTime == 2
ConcurrentMaxTime == 1

U64Max == Modulus - 1
U32Max == Modulus32 - 1

Calls == {"t1", "t2"}
Pids == {1, 2}

\* Option<T>: None is <<>>, Some(x) is <<x>>.
None == <<>>
Some(x) == <<x>>

Min(a, b) == IF a < b THEN a ELSE b

\* ------------------------------------------------------ integer arithmetic
\* u64 `a - b`: the wrapped value and whether the subtraction overflowed.
SubWraps(a, b) == a < b
WrappingSub(a, b) == (a - b + Modulus) % Modulus
AddWraps(a, b) == a + b > U64Max
WrappingAdd(a, b) == (a + b) % Modulus

\* Mutation of RateOf: the difference is reported without dividing it.
RateOf_NoDivision(delta, elapsed) == delta

\* `(delta as f64 / elapsed) as u64`: IEEE division never traps; x/0.0 is
\* +inf for x > 0 and NaN for x = 0, and the cast saturates (inf -> u64::MAX,
\* NaN -> 0, finite values truncate toward zero).
RateOf(delta, elapsed) ==
    IF elapsed = 0
    THEN IF delta = 0 THEN 0 ELSE U64Max
    ELSE Min((delta * TicksPerSec) \div elapsed, U64Max)

\* Iterator::sum over a sequence of u64 (modular, as in a release build).
RECURSIVE SumSeq(_)
SumSeq(s) == IF s = <<>> THEN 0 ELSE WrappingAdd(Head(s), SumSeq(Tail(s)))

\* ------------------------------------------------------- string conversions
Digit(d) == CASE d = 0 -> "0" [] d = 1 -> "1" [] d = 2 -> "2" [] d = 3 -> "3"
              [] d = 4 -> "4" [] d = 5 -> "5" [] d = 6 -> "6" [] d = 7 -> "7"
              [] d = 8 -> "8" [] d = 9 -> "9"

\* uid.to_string(): decimal rendering of the numeric user id.
RECURSIVE UidToString(_)
UidToString(n) ==
    IF n < 10 THEN Digit(n) ELSE UidToString(n \div 10) \o Digit(n % 10)

\* cmd.join(" ")
RECURSIVE Join(_, _)
Join(argv, sep) ==
    IF argv = <<>> THEN ""
    ELSE IF Len(argv) = 1 THEN Head(argv)
    ELSE Head(argv) \o sep \o Join(Tail(argv), sep)

\* ------------------------------------------------- what the OS can report
\* One process of sys.processes(): the fields get_processes collects.
ProcInit(pid) ==
    [pid |-> pid, name |-> "init", cmd |-> <<"/sbin/init", "splash">>,
     user_id |-> Some(0), cpu_usage |-> 1, memory |-> 64, status |-> "Sleep",
     parent |-> None]
ProcWorker(pid) ==
    [pid |-> pid, name |-> "worker", cmd |-> <<"worker", "-v">>,
     user_id |-> Some(501), cpu_usage |-> 50, memory |-> 128, status |-> "Run",
     parent |-> Some(1)]
ProcRenamed(pid) ==
    [pid |-> pid, name |-> "systemd", cmd |-> <<>>,
     user_id |-> None, cpu_usage |-> 0, memory |-> 80, status |-> "Idle",
     parent |-> None]
ProcZombie(pid) ==
    [pid |-> pid, name |-> "defunct", cmd |-> <<"worker">>,
     user_id |-> Some(0), cpu_usage |-> 0, memory |-> 0, status |-> "Zombie",
     parent |-> Some(1)]

\* Process tables a refresh can read, each in the order the map iterates
\* (pids are unique within a table).
TableBoth == << ProcInit(1), ProcWorker(2) >>
TableBothReversed == << ProcWorker(2), ProcInit(1) >>
TableRenamed == << ProcRenamed(1) >>
TableZombie == << ProcZombie(2) >>
ProcTables == { TableBoth, TableBothReversed, TableRenamed, TableZombie }

\* Per-interface cumulative (received, transmitted) counters.
NetsBase == << [rx |-> 1000, tx |-> 500] >>
NetsHigher == << [rx |-> 2000, tx |-> 605], [rx |-> 1000, tx |-> 400] >>
NetsLower == << [rx |-> 200, tx |-> 100] >>
NetReadings == { NetsBase, NetsHigher, NetsLower }

\* Disk lists: mount point, total and available space.
DisksBase ==
    << [mount |-> "/", total |-> 100, avail |-> 40],
       [mount |-> "/data", total |-> 200, avail |-> 50],
       [mount |-> "/mnt/usb", total |-> 50, avail |-> 10] >>
DisksTwoRoots ==
    << [mount |-> "/", total |-> 100, avail |-> 30],
       [mount |-> "/", total |-> 20, avail |-> 5],
       [mount |-> "/home", total |-> 300, avail |-> 7] >>
DisksNoRoot == << [mount |-> "/boot", total |-> 10, avail |-> 4] >>
DiskReadings == { DisksBase, DisksTwoRoots, DisksNoRoot }

\* (total_memory, used_memory)
MemBase == [total |-> 8, used |-> 3]
MemReadings == { MemBase, [total |-> 4, used |-> 6] }

\* cpus, uptime and load averages are only passed through.
Base ==
    [procs |-> TableBoth, nets |-> NetsBase, disks |-> DisksBase,
     mem |-> MemBase, cpus |-> <<10, 20>>, uptime |-> 60,
     load_average |-> <<1, 2, 3>>]

\* The readings of the sequential specification: each fact varies against
\* the base reading.
OsReadings ==
    {[Base EXCEPT !.procs = t] : t \in ProcTables}
    \cup {[Base EXCEPT !.nets = n] : n \in NetReadings}
    \cup {[Base EXCEPT !.disks = d] : d \in DiskReadings}
    \cup {[Base EXCEPT !.mem = m] : m \in MemReadings}

\* The readings of the concurrent specification.
ConcurrentReadings ==
    { Base, [Base EXCEPT !.nets = NetsLower],
      [Base EXCEPT !.procs = TableRenamed] }

TotalReceived(nets) == SumSeq([i \in DOMAIN nets |-> nets[i].rx])
TotalTransmitted(nets) == SumSeq([i \in DOMAIN nets |-> nets[i].tx])

\* ------------------------------------------- per-process network sampler
\* One run of `nettop`: whether the command could be executed, and its
\* output lines. A line either matches the pattern (three digit fields) or
\* does not; digit fields are sequences of decimal digits.
NoMatch == [matched |-> FALSE]
Line(pid, rx, tx) == [matched |-> TRUE, pid |-> pid, rx |-> rx, tx |-> tx]

RunFailed == [executed |-> FALSE, lines |-> <<>>]
RunOne == [executed |-> TRUE,
           lines |-> << NoMatch, Line(<<1>>, <<1, 0>>, <<2, 0>>) >>]
RunTwice == [executed |-> TRUE,
             lines |-> << Line(<<2>>, <<5>>, <<5>>), Line(<<2>>, <<7>>, <<9>>) >>]
RunMalformed == [executed |-> TRUE, lines |-> << Line(<<9, 9>>, <<1>>, <<1>>) >>]

NettopRuns == { RunFailed, RunOne, RunTwice, RunMalformed }
ConcurrentRuns == { RunFailed, RunOne }

RECURSIVE DigitsValue(_)
DigitsValue(ds) ==
    IF ds = <<>> THEN 0
    ELSE 10 * DigitsValue(SubSeq(ds, 1, Len(ds) - 1)) + ds[Len(ds)]

\* str::parse::<uN>(): fails when the value does not fit the type.
ParseFails(ds, max) == DigitsValue(ds) > max

LineFails(l) ==
    /\ l.matched
    /\ \/ ParseFails(l.pid, U32Max)
       \/ ParseFails(l.rx, U64Max)
       \/ ParseFails(l.tx, U64Max)

\* pid_map after inserting the matching lines in order (later lines win).
RECURSIVE PidMap(_)
PidMap(lines) ==
    IF lines = <<>> THEN <<>>
    ELSE LET l == lines[Len(lines)]
             before == PidMap(SubSeq(lines, 1, Len(lines) - 1))
         IN IF l.matched
            THEN (DigitsValue(l.pid) :> <<DigitsValue(l.rx), DigitsValue(l.tx)>>)
                 @@ before
            ELSE before

\* get_network_usage_macos panics when nettop cannot be run or a field
\* does not parse; otherwise it returns the pid map.
MacosSamplerPanics(run) ==
    \/ ~run.executed
    \/ \E i \in DOMAIN run.lines : LineFails(run.lines[i])

\* The only target on which the call in get_network_usage resolves.
TargetIsMacos == TRUE

SamplerPanics(run) == TargetIsMacos /\ MacosSamplerPanics(run)
get_network_usage(run) == IF TargetIsMacos THEN PidMap(run.lines) ELSE <<>>

\* ------------------------------------------------------------------ state
VARIABLES
    sys,                 \* AppState.sys: the facts as of the last refresh
    process_cache,       \* AppState.process_cache: pid -> ProcessStaticInfo
    last_network_update, \* AppState.last_network_update: (instant, rx, tx)
    holder,              \* per mutex: the call holding it, or "free"
    poisoned,            \* the mutexes a panicking holder has poisoned
    now,                 \* the monotonic clock, in ticks
    overflowChecks,      \* whether the build traps integer overflow
    pc,                  \* per call: where it stands
    cmd,                 \* per call: the command it runs
    processes_data,      \* per call: local of get_processes
    system_stats,        \* per call: local of get_processes
    network_stats,       \* per call: local of get_processes
    current_sample,      \* per call: (current_time, current_rx, current_tx)
    network_data,        \* per call: local of get_processes
    result,              \* per call: what the command returned
    sysOwner,            \* history: whose refresh filled sys
    monotonic,           \* history: no refresh has read a lower counter
    refreshed,           \* history, per call: the reading its refresh read
    calc,                \* history, per call: the last rate computation
    firstSeen,           \* history: pid -> static info at first observation
    initial,             \* history: the counters stored at startup
    deltaSum,            \* history: u64 sums of the deltas of all updates
    sampled              \* history, per call: what each sampler run gave

vars == << sys, process_cache, last_network_update, holder, poisoned, now,
           overflowChecks, pc, cmd, processes_data, system_stats,
           network_stats, current_sample, network_data, result, sysOwner,
           monotonic, refreshed, calc, firstSeen, initial, deltaSum, sampled >>

shared == << sys, process_cache, last_network_update >>
locals ==
    << processes_data, system_stats, network_stats, current_sample,
       network_data >>
history ==
    << sysOwner, monotonic, refreshed, calc, firstSeen, initial, deltaSum,
       sampled >>

Locks == {"sys", "net", "cache"}
Get == [op |-> "get"]
Kill(pid) == [op |-> "kill", pid |-> pid]
Commands == {Get} \cup {Kill(p) : p \in Pids}
ConcurrentCommands == {Get, Kill(2)}

NoResult == [tag |-> "None"]
Err(msg) == [tag |-> "Err", msg |-> msg]
Ok(v) == [tag |-> "Ok", value |-> v]
NoCalc == [state |-> "none"]
NoReading == [read |-> FALSE]
NoStats == [built |-> FALSE]
NoCurrent == <<>>

\* AppState::new(): refresh_all, then the tracker from the first reading.
InitWith(readings) ==
    /\ sys \in readings
    /\ process_cache = <<>>
    /\ now = 0
    /\ last_network_update =
           << now, TotalReceived(sys.nets), TotalTransmitted(sys.nets) >>
    /\ holder = [l \in Locks |-> "free"]
    /\ poisoned = {}
    /\ overflowChecks \in BOOLEAN
    /\ pc = [c \in Calls |-> "idle"]
    /\ cmd = [c \in Calls |-> Get]
    /\ processes_data = [c \in Calls |-> <<>>]
    /\ system_stats = [c \in Calls |-> NoStats]
    /\ network_stats = [c \in Calls |-> <<>>]
    /\ current_sample = [c \in Calls |-> NoCurrent]
    /\ network_data = [c \in Calls |-> <<>>]
    /\ result = [c \in Calls |-> NoResult]
    /\ sysOwner = "startup"
    /\ monotonic = TRUE
    /\ refreshed = [c \in Calls |-> NoReading]
    /\ calc = [c \in Calls |-> NoCalc]
    /\ firstSeen = <<>>
    /\ initial = << last_network_update[2], last_network_update[3] >>
    /\ deltaSum = << 0, 0 >>
    /\ sampled = [c \in Calls |-> <<>>]

\* ---------------------------------------------------------------- mutexes
\* Mutation of LockFree: the lock is taken without waiting for its holder.
LockFree_Always(l) == TRUE

\* Mutex::lock blocks while another call holds the guard.
LockFree(l) == holder[l] = "free"
HeldBy(c) == {l \in Locks : holder[l] = c}

\* Mutation of Released: the guards are leaked instead of being dropped.
Released_Leaked(c) == holder

\* Mutation of Released: the sys scope reaches to the end of the function,
\* so that only the cache guard is dropped before it.
Released_CacheOnly(c) ==
    [l \in Locks |-> IF holder[l] = c /\ l = "cache" THEN "free" ELSE holder[l]]

\* Dropping every guard the call holds (scope end or early return).
Released(c) == [l \in Locks |-> IF holder[l] = c THEN "free" ELSE holder[l]]

ClearLocals(c) ==
    /\ processes_data' = [processes_data EXCEPT ![c] = <<>>]
    /\ system_stats' = [system_stats EXCEPT ![c] = NoStats]
    /\ network_stats' = [network_stats EXCEPT ![c] = <<>>]
    /\ current_sample' = [current_sample EXCEPT ![c] = NoCurrent]
    /\ network_data' = [network_data EXCEPT ![c] = <<>>]

\* Mutation of ReturnErr: the call returns what it has built so far.
ReturnErr_Partial(c, msg) ==
    /\ result' = [result EXCEPT ![c] = Ok(<< processes_data[c], system_stats[c] >>)]
    /\ pc' = [pc EXCEPT ![c] = "done"]
    /\ holder' = Released(c)
    /\ ClearLocals(c)
    /\ UNCHANGED poisoned

\* `?` on a failed lock: the call returns Err(msg), dropping its guards.
ReturnErr(c, msg) ==
    /\ result' = [result EXCEPT ![c] = Err(msg)]
    /\ pc' = [pc EXCEPT ![c] = "done"]
    /\ holder' = Released(c)
    /\ ClearLocals(c)
    /\ UNCHANGED poisoned

\* A panic unwinds the task: every guard it holds is dropped while
\* panicking, which poisons its mutex; the command never returns a value.
Panic(c) ==
    /\ poisoned' = poisoned \cup HeldBy(c)
    /\ holder' = Released(c)
    /\ pc' = [pc EXCEPT ![c] = "panicked"]
    /\ ClearLocals(c)
    /\ UNCHANGED result

\* ------------------------------------------------------------ dispatching
\* The dispatch layer starts a command on a task that is not running one.
Invoke(c, o) ==
    /\ pc[c] \in {"idle", "done", "panicked"}
    /\ cmd' = [cmd EXCEPT ![c] = o]
    /\ pc' = [pc EXCEPT ![c] = IF o.op = "get" THEN "lock_sys" ELSE "k_lock"]
    /\ result' = [result EXCEPT ![c] = NoResult]
    /\ calc' = [calc EXCEPT ![c] = NoCalc]
    /\ refreshed' = [refreshed EXCEPT ![c] = NoReading]
    /\ sampled' = [sampled EXCEPT ![c] = <<>>]
    /\ UNCHANGED << shared, locals, holder, poisoned, now, overflowChecks,
                    sysOwner, monotonic, firstSeen, initial, deltaSum >>

\* The clock advances (up to the bound of the specification).
Tick(limit) ==
    /\ now < limit
    /\ now' = now + 1
    /\ UNCHANGED << shared, locals, holder, poisoned, overflowChecks, pc, cmd,
                    result, history >>

\* ---------------------------------------------------------- get_processes
\* The tuple collected for one process while the sys lock is held.
ProcessTuple(p) ==
    [pid |-> p.pid, name |-> p.name, cmd |-> p.cmd,
     user_id |-> IF p.user_id = None THEN None
                 ELSE Some(UidToString(p.user_id[1])),
     cpu_usage |-> p.cpu_usage, memory |-> p.memory, status |-> p.status,
     ppid |-> p.parent]

\* Mutation of IsRootMount: every mount below the root counts.
IsRootMount_StartsWith(disk) ==
    disk.mount \in {"/", "/data", "/mnt/usb", "/home", "/boot"}

IsRootMount(disk) == disk.mount = "/"

\* filter(mount_point == "/").fold((0, 0, 0), ...), with whether any of the
\* u64 operations overflowed.
RECURSIVE DiskFold(_)
DiskFold(disks) ==
    IF disks = <<>>
    THEN [total |-> 0, used |-> 0, free |-> 0, overflow |-> FALSE]
    ELSE LET acc == DiskFold(SubSeq(disks, 1, Len(disks) - 1))
             disk == disks[Len(disks)]
             sum == WrappingAdd(acc.used, disk.total)
         IN IF ~IsRootMount(disk) THEN acc
            ELSE [total |-> WrappingAdd(acc.total, disk.total),
                  used |-> WrappingSub(sum, disk.avail),
                  free |-> WrappingAdd(acc.free, disk.avail),
                  overflow |-> \/ acc.overflow
                               \/ AddWraps(acc.total, disk.total)
                               \/ AddWraps(acc.used, disk.total)
                               \/ SubWraps(sum, disk.avail)
                               \/ AddWraps(acc.free, disk.avail)]

MemoryFree(mem) == WrappingSub(mem.total, mem.used)

\* Mutation of MemoryCached: the free memory is not added back to the used.
MemoryCached_UsedOnly(mem) == WrappingSub(mem.total, mem.used)

\* Line 181: total - (used + (total - used)), each operation on u64.
MemoryCached(mem) ==
    WrappingSub(mem.total, WrappingAdd(mem.used, MemoryFree(mem)))
MemoryOverflows(mem) ==
    \/ SubWraps(mem.total, mem.used)
    \/ AddWraps(mem.used, MemoryFree(mem))
    \/ SubWraps(mem.total, WrappingAdd(mem.used, MemoryFree(mem)))

GP_LockSys(c) ==
    /\ pc[c] = "lock_sys"
    /\ LockFree("sys")
    /\ IF "sys" \in poisoned
       THEN ReturnErr(c, "Failed to lock system state")
       ELSE /\ holder' = [holder EXCEPT !["sys"] = c]
            /\ pc' = [pc EXCEPT ![c] = "refresh"]
            /\ UNCHANGED << locals, poisoned, result >>
    /\ UNCHANGED << shared, now, overflowChecks, cmd, history >>

\* refresh_all, refresh_networks, refresh_disks_list, refresh_disks
GP_Refresh(c, readings) ==
    /\ pc[c] = "refresh"
    /\ \E r \in readings :
          /\ sys' = r
          /\ monotonic' = (/\ monotonic
                           /\ TotalReceived(r.nets) >= TotalReceived(sys.nets)
                           /\ TotalTransmitted(r.nets)
                                  >= TotalTransmitted(sys.nets))
    /\ sysOwner' = c
    /\ refreshed' = [refreshed EXCEPT ![c] = sys']
    /\ pc' = [pc EXCEPT ![c] = "collect"]
    /\ UNCHANGED << process_cache, last_network_update, locals, holder,
                    poisoned, now, overflowChecks, cmd, result, calc,
                    firstSeen, initial, deltaSum, sampled >>

GP_Collect(c) ==
    /\ pc[c] = "collect"
    /\ processes_data' =
           [processes_data EXCEPT
               ![c] = [i \in DOMAIN sys.procs |-> ProcessTuple(sys.procs[i])]]
    /\ pc' = [pc EXCEPT ![c] = "lock_net"]
    /\ UNCHANGED << shared, system_stats, network_stats, current_sample,
                    network_data, holder, poisoned, now, overflowChecks, cmd,
                    result, history >>

GP_LockNet(c) ==
    /\ pc[c] = "lock_net"
    /\ LockFree("net")
    /\ IF "net" \in poisoned
       THEN ReturnErr(c, "Failed to lock network state")
       ELSE /\ holder' = [holder EXCEPT !["net"] = c]
            /\ pc' = [pc EXCEPT ![c] = "network"]
            /\ UNCHANGED << locals, poisoned, result >>
    /\ UNCHANGED << shared, now, overflowChecks, cmd, history >>

\* Mutation of CounterDelta: the operands are swapped.
CounterDelta_Swapped(current, previous) == WrappingSub(previous, current)

\* Mutation of DivisionFaults: an integer division, which traps on zero.
DivisionFaults_Integer(delta, elapsed) == elapsed = 0

\* `current - previous` on u64 (lines 156-157): the wrapped difference.
CounterDelta(current, previous) == WrappingSub(current, previous)

\* Whether `delta as f64 / elapsed` traps: a floating-point division by
\* zero yields an infinity or a NaN and never faults.
DivisionFaults(delta, elapsed) == FALSE

\* Lines 149-158: the elapsed time, the current counters and the rates
\* against the stored sample. `current - previous` panics in a build with
\* overflow checks when current < previous, and wraps in one without.
GP_Network(c) ==
    /\ pc[c] = "network"
    /\ LET elapsed == now - last_network_update[1]
           current_time == now
           current_rx == TotalReceived(sys.nets)
           current_tx == TotalTransmitted(sys.nets)
           delta_rx == CounterDelta(current_rx, last_network_update[2])
           delta_tx == CounterDelta(current_tx, last_network_update[3])
           sample == [prev_rx |-> last_network_update[2],
                      prev_tx |-> last_network_update[3],
                      cur_rx |-> current_rx, cur_tx |-> current_tx,
                      elapsed |-> elapsed]
       IN IF /\ overflowChecks
             /\ \/ SubWraps(current_rx, last_network_update[2])
                \/ SubWraps(current_tx, last_network_update[3])
          THEN /\ Panic(c)
               /\ calc' = [calc EXCEPT ![c] = [state |-> "overflow"] @@ sample]
          ELSE IF DivisionFaults(delta_rx, elapsed)
                  \/ DivisionFaults(delta_tx, elapsed)
          THEN /\ Panic(c)
               /\ calc' = [calc EXCEPT ![c] = [state |-> "division"] @@ sample]
          ELSE /\ network_stats' =
                     [network_stats EXCEPT
                        ![c] = << RateOf(delta_rx, elapsed),
                                  RateOf(delta_tx, elapsed) >>]
               /\ current_sample' =
                     [current_sample EXCEPT
                        ![c] = << current_time, current_rx, current_tx >>]
               /\ calc' = [calc EXCEPT
                             ![c] = [state |-> "read", delta_rx |-> delta_rx,
                                     delta_tx |-> delta_tx] @@ sample]
               /\ pc' = [pc EXCEPT ![c] = "net_write"]
               /\ UNCHANGED << processes_data, system_stats, network_data,
                               holder, poisoned, result >>
    /\ UNCHANGED << shared, now, overflowChecks, cmd, sysOwner, monotonic,
                    refreshed, firstSeen, initial, deltaSum, sampled >>

\* Line 160: *last_update = (current_time, current_rx, current_tx).
GP_NetworkWrite(c) ==
    /\ pc[c] = "net_write"
    /\ last_network_update' = current_sample[c]
    /\ calc' = [calc EXCEPT ![c].state = "done"]
    /\ deltaSum' = << WrappingAdd(deltaSum[1], calc[c].delta_rx),
                      WrappingAdd(deltaSum[2], calc[c].delta_tx) >>
    /\ pc' = [pc EXCEPT ![c] = "stats"]
    /\ UNCHANGED << sys, process_cache, locals, holder, poisoned, now,
                    overflowChecks, cmd, result, sysOwner, monotonic,
                    refreshed, firstSeen, initial, sampled >>

SystemStatsOf(s, rates, disk_stats) ==
    [cpu_usage |-> s.cpus,
     memory_total |-> s.mem.total,
     memory_used |-> s.mem.used,
     memory_free |-> MemoryFree(s.mem),
     memory_cached |-> MemoryCached(s.mem),
     uptime |-> s.uptime,
     load_avg |-> s.load_average,
     network_rx_bytes |-> rates[1],
     network_tx_bytes |-> rates[2],
     disk_total_bytes |-> disk_stats.total,
     disk_used_bytes |-> disk_stats.used,
     disk_free_bytes |-> disk_stats.free]

\* Lines 163-190: disk totals, SystemStats, then both guards are dropped.
GP_Stats(c) ==
    /\ pc[c] = "stats"
    /\ LET disk_stats == DiskFold(sys.disks)
       IN IF overflowChecks /\ (disk_stats.overflow \/ MemoryOverflows(sys.mem))
          THEN Panic(c)
          ELSE /\ system_stats' =
                     [system_stats EXCEPT
                        ![c] = SystemStatsOf(sys, network_stats[c], disk_stats)]
               /\ holder' = Released(c)
               /\ pc' = [pc EXCEPT ![c] = "lock_cache"]
               /\ UNCHANGED << processes_data, network_stats, current_sample,
                               network_data, poisoned, result >>
    /\ UNCHANGED << shared, now, overflowChecks, cmd, history >>

GP_LockCache(c) ==
    /\ pc[c] = "lock_cache"
    /\ LockFree("cache")
    /\ IF "cache" \in poisoned
       THEN ReturnErr(c, "Failed to lock process cache")
       ELSE /\ holder' = [holder EXCEPT !["cache"] = c]
            /\ pc' = [pc EXCEPT ![c] = "sample"]
            /\ UNCHANGED << locals, poisoned, result >>
    /\ UNCHANGED << shared, now, overflowChecks, cmd, history >>

\* Line 195: one run of the sampler, with the cache guard held. The
\* history gets the mapping of the run (the empty one for a run that
\* panicked).
GP_Sample(c, runs) ==
    /\ pc[c] = "sample"
    /\ \E run \in runs :
          IF SamplerPanics(run)
          THEN /\ Panic(c)
               /\ sampled' = [sampled EXCEPT ![c] = Append(@, <<>>)]
          ELSE /\ sampled' =
                     [sampled EXCEPT ![c] = Append(@, get_network_usage(run))]
               /\ network_data' =
                     [network_data EXCEPT ![c] = get_network_usage(run)]
               /\ pc' = [pc EXCEPT ![c] = "build"]
               /\ UNCHANGED << processes_data, system_stats, network_stats,
                               current_sample, holder, poisoned, result >>
    /\ UNCHANGED << shared, now, overflowChecks, cmd, sysOwner, monotonic,
                    refreshed, calc, firstSeen, initial, deltaSum >>

StaticInfoOf(t) ==
    [name |-> t.name,
     command |-> Join(t.cmd, " "),
     user |-> IF t.user_id = None THEN "-" ELSE t.user_id[1]]

\* Mutation of EntryOrInsert: the entry is overwritten on every sighting.
EntryOrInsert_Overwrite(cache, pid, info) == (pid :> info) @@ cache

\* process_cache.entry(pid).or_insert_with(...)
EntryOrInsert(cache, pid, info) ==
    IF pid \in DOMAIN cache THEN cache ELSE (pid :> info) @@ cache

\* Mutation of CacheAfter: the entries of processes that are no longer in
\* the list are dropped before the merge.
RECURSIVE CacheAfter_LiveOnly(_, _, _)
CacheAfter_LiveOnly(cache, data, n) ==
    IF n = 0
    THEN [p \in {q \in DOMAIN cache : \E i \in DOMAIN data : data[i].pid = q}
             |-> cache[p]]
    ELSE EntryOrInsert(CacheAfter_LiveOnly(cache, data, n - 1), data[n].pid,
                       StaticInfoOf(data[n]))

\* The cache after the first n tuples have been merged.
RECURSIVE CacheAfter(_, _, _)
CacheAfter(cache, data, n) ==
    IF n = 0 THEN cache
    ELSE EntryOrInsert(CacheAfter(cache, data, n - 1), data[n].pid,
                       StaticInfoOf(data[n]))

\* Mutation of StatusString: the variant's own name is passed through.
StatusString_VariantName(status) == status

\* Lines 209-214: the match on ProcessStatus.
StatusString(status) ==
    CASE status = "Run" -> "Running"
      [] status = "Sleep" -> "Sleeping"
      [] status = "Idle" -> "Idle"
      [] OTHER -> "Unknown"

\* Mutation of NetworkOf: the mapping is read without regard to the pid.
NetworkOf_AnyEntry(data, pid) ==
    IF data = <<>> THEN <<0, 0>> ELSE data[CHOOSE p \in DOMAIN data : TRUE]

\* network_data.get(&pid).copied().unwrap_or((0, 0))
NetworkOf(data, pid) == IF pid \in DOMAIN data THEN data[pid] ELSE <<0, 0>>

\* Mutation of ProcessInfoOf: pid and parent pid change places.
ProcessInfoOf_ParentAsPid(t, static_info, net) ==
    [pid |-> IF t.ppid = None THEN 0 ELSE t.ppid[1],
     ppid |-> t.pid,
     name |-> static_info.name,
     cpu_usage |-> t.cpu_usage,
     memory_usage |-> t.memory,
     network_rx |-> net[1],
     network_tx |-> net[2],
     status |-> StatusString(t.status),
     user |-> static_info.user,
     command |-> static_info.command,
     threads |-> None]

\* Lines 219-231: the ProcessInfo of one collected tuple.
ProcessInfoOf(t, static_info, net) ==
    [pid |-> t.pid,
     ppid |-> IF t.ppid = None THEN 0 ELSE t.ppid[1],
     name |-> static_info.name,
     cpu_usage |-> t.cpu_usage,
     memory_usage |-> t.memory,
     network_rx |-> net[1],
     network_tx |-> net[2],
     status |-> StatusString(t.status),
     user |-> static_info.user,
     command |-> static_info.command,
     threads |-> None]

\* Lines 198-235: merge with the cache, return Ok, drop the cache guard.
GP_Build(c) ==
    /\ pc[c] = "build"
    /\ LET data == processes_data[c]
           processes ==
               [i \in DOMAIN data |->
                   ProcessInfoOf(data[i],
                                 CacheAfter(process_cache, data, i)[data[i].pid],
                                 NetworkOf(network_data[c], data[i].pid))]
           seen == {data[i].pid : i \in DOMAIN data}
       IN /\ process_cache' = CacheAfter(process_cache, data, Len(data))
          /\ result' = [result EXCEPT ![c] = Ok(<< processes, system_stats[c] >>)]
          /\ firstSeen' =
                [p \in DOMAIN firstSeen \cup seen |->
                    IF p \in DOMAIN firstSeen THEN firstSeen[p]
                    ELSE LET i == CHOOSE i \in DOMAIN data : data[i].pid = p
                         IN StaticInfoOf(data[i])]
    /\ holder' = Released(c)
    /\ pc' = [pc EXCEPT ![c] = "done"]
    /\ ClearLocals(c)
    /\ UNCHANGED << sys, last_network_update, poisoned, now, overflowChecks,
                    cmd, sysOwner, monotonic, refreshed, calc, initial,
                    deltaSum, sampled >>

\* ----------------------------------------------------------- kill_process
\* Mutation of HasProcess: any process of the table answers the lookup.
HasProcess_AnyProcess(s, pid) == s.procs /= <<>>

\* sys.process(pid) is Some
HasProcess(s, pid) == \E i \in DOMAIN s.procs : s.procs[i].pid = pid

KP_Lock(c) ==
    /\ pc[c] = "k_lock"
    /\ LockFree("sys")
    /\ IF "sys" \in poisoned
       THEN ReturnErr(c, "Failed to lock system state")
       ELSE /\ holder' = [holder EXCEPT !["sys"] = c]
            /\ pc' = [pc EXCEPT ![c] = "k_kill"]
            /\ UNCHANGED << locals, poisoned, result >>
    /\ UNCHANGED << shared, now, overflowChecks, cmd, history >>

\* sys.process(pid): Some -> Ok(process.kill()), None -> Ok(false).
\* process.kill() reports whether the OS accepted the signal.
KP_Kill(c) ==
    /\ pc[c] = "k_kill"
    /\ \E accepted \in (IF HasProcess(sys, cmd[c].pid)
                        THEN BOOLEAN ELSE {FALSE}) :
          result' = [result EXCEPT ![c] = Ok(accepted)]
    /\ holder' = Released(c)
    /\ pc' = [pc EXCEPT ![c] = "done"]
    /\ UNCHANGED << shared, locals, poisoned, now, overflowChecks, cmd,
                    history >>

\* ---------------------------------------------------------- specification
\* One step of the command running on task c.
Step(c, commands, readings, runs) ==
    \/ \E o \in commands : Invoke(c, o)
    \/ GP_LockSys(c)
    \/ GP_Refresh(c, readings)
    \/ GP_Collect(c)
    \/ GP_LockNet(c)
    \/ GP_Network(c)
    \/ GP_NetworkWrite(c)
    \/ GP_Stats(c)
    \/ GP_LockCache(c)
    \/ GP_Sample(c, runs)
    \/ GP_Build(c)
    \/ KP_Lock(c)
    \/ KP_Kill(c)

\* Commands dispatched concurrently on both tasks.
Init == InitWith(ConcurrentReadings)
Next ==
    \/ Tick(ConcurrentMaxTime)
    \/ \E c \in Calls :
          Step(c, ConcurrentCommands, ConcurrentReadings, ConcurrentRuns)
Spec == Init /\ [][Next]_vars

\* The steps of the command running on task c, its dispatch apart.
Run(c, readings, runs) ==
    \/ GP_LockSys(c)
    \/ GP_Refresh(c, readings)
    \/ GP_Collect(c)
    \/ GP_LockNet(c)
    \/ GP_Network(c)
    \/ GP_NetworkWrite(c)
    \/ GP_Stats(c)
    \/ GP_LockCache(c)
    \/ GP_Sample(c, runs)
    \/ GP_Build(c)
    \/ KP_Lock(c)
    \/ KP_Kill(c)

\* Concurrent dispatch under fair scheduling, with the clock standing
\* still: the runtime keeps running a dispatched command (a waiting task
\* gets the lock it waits for), and the caller keeps calling each command
\* again.
FairReadings == { Base, [Base EXCEPT !.nets = NetsLower] }
FairInit == InitWith(FairReadings)
FairNext ==
    \E c \in Calls : Step(c, ConcurrentCommands, FairReadings, ConcurrentRuns)
FairSpec ==
    /\ FairInit
    /\ [][FairNext]_vars
    /\ \A c \in Calls :
          /\ SF_vars(Run(c, FairReadings, ConcurrentRuns))
          /\ \A o \in ConcurrentCommands : SF_vars(Invoke(c, o))

\* Concurrent get_processes calls alone, over readings whose network
\* counters differ (lower than, equal to and higher than the base).
GetReadings == {[Base EXCEPT !.nets = n] : n \in NetReadings}
GetStep(c, readings, runs) ==
    \/ Invoke(c, Get)
    \/ GP_LockSys(c)
    \/ GP_Refresh(c, readings)
    \/ GP_Collect(c)
    \/ GP_LockNet(c)
    \/ GP_Network(c)
    \/ GP_NetworkWrite(c)
    \/ GP_Stats(c)
    \/ GP_LockCache(c)
    \/ GP_Sample(c, runs)
    \/ GP_Build(c)
GetInit == InitWith(GetReadings)
GetNext ==
    \/ Tick(ConcurrentMaxTime)
    \/ \E c \in Calls : GetStep(c, GetReadings, ConcurrentRuns)
GetSpec == GetInit /\ [][GetNext]_vars

\* Commands dispatched one after the other on a single task, over the
\* full set of readings.
SeqInit == InitWith(OsReadings)
SeqNext == Tick(MaxTime) \/ Step("t1", Commands, OsReadings, NettopRuns)
SeqSpec == SeqInit /\ [][SeqNext]_vars

\* ------------------------------------------------------------- properties
Returned(c, op) == pc[c] = "done" /\ cmd[c].op = op
ReturnedOk(c, op) == Returned(c, op) /\ result[c].tag = "Ok"
ProcessesOf(c) == result[c].value[1]
StatsOf(c) == result[c].value[2]

\* C1: every process a successful get_processes returns carries the name,
\* command and user stored for its pid at the first sighting, whatever the
\* reading of this call says.
C1_FirstWriteWins ==
    \A c \in Calls :
        ReturnedOk(c, "get") =>
            \A i \in DOMAIN ProcessesOf(c) :
                LET p == ProcessesOf(c)[i]
                IN /\ p.pid \in DOMAIN firstSeen
                   /\ [name |-> p.name, command |-> p.command, user |-> p.user]
                          = firstSeen[p.pid]

\* A call returned the stored name although its own refresh read another.
C1_Witness ==
    \E c \in Calls :
        /\ ReturnedOk(c, "get")
        /\ refreshed[c] = sys
        /\ \E i \in DOMAIN ProcessesOf(c), j \in DOMAIN sys.procs :
              /\ ProcessesOf(c)[i].pid = sys.procs[j].pid
              /\ ProcessesOf(c)[i].name /= sys.procs[j].name
              /\ ProcessesOf(c)[i].user /= "-"
              /\ sys.procs[j].user_id = None

\* C2: while every refresh has read counters no lower than the refresh
\* before it, no call faults on the subtraction, and every returned
\* SystemStats has rates >= 0 that were computed from the true, non-negative
\* difference current - previous.
C2_MonotonicNonNegative ==
    monotonic =>
        \A c \in Calls :
            /\ calc[c].state /= "overflow"
            /\ ReturnedOk(c, "get") =>
                  /\ calc[c].state = "done"
                  /\ calc[c].cur_rx - calc[c].prev_rx >= 0
                  /\ calc[c].cur_tx - calc[c].prev_tx >= 0
                  /\ calc[c].delta_rx = calc[c].cur_rx - calc[c].prev_rx
                  /\ calc[c].delta_tx = calc[c].cur_tx - calc[c].prev_tx
                  /\ StatsOf(c).network_rx_bytes >= 0
                  /\ StatsOf(c).network_tx_bytes >= 0

\* Counters grew between the stored sample and this call's refresh.
C2_Witness ==
    /\ monotonic
    /\ \E c \in Calls :
          /\ ReturnedOk(c, "get")
          /\ calc[c].cur_rx > calc[c].prev_rx
          /\ calc[c].elapsed > 0
          /\ StatsOf(c).network_rx_bytes > 0

\* C3: after a counter reset (current < previous) the call does not fault
\* and the reported rate is clamped: it is at most what the current counter
\* alone accounts for over the elapsed time, never a wrapped difference.
C3_ResetIsClamped ==
    \A c \in Calls :
        /\ calc[c].state /= "overflow"
        /\ ReturnedOk(c, "get") =>
              /\ calc[c].cur_rx < calc[c].prev_rx =>
                    StatsOf(c).network_rx_bytes
                        <= RateOf(calc[c].cur_rx, calc[c].elapsed)
              /\ calc[c].cur_tx < calc[c].prev_tx =>
                    StatsOf(c).network_tx_bytes
                        <= RateOf(calc[c].cur_tx, calc[c].elapsed)

\* C4: the rate division never faults; with no time elapsed since the
\* stored sample the call goes on, and what it returns is the saturated
\* quotient (0 for an unchanged counter, the maximum otherwise).
C4_NoDivisionFault ==
    \A c \in Calls :
        /\ calc[c].state /= "division"
        /\ (ReturnedOk(c, "get") /\ calc[c].elapsed = 0) =>
              /\ StatsOf(c).network_rx_bytes =
                    IF calc[c].delta_rx = 0 THEN 0 ELSE U64Max
              /\ StatsOf(c).network_tx_bytes =
                    IF calc[c].delta_tx = 0 THEN 0 ELSE U64Max

\* A call returned a snapshot computed with zero elapsed time and a counter
\* that had moved.
C4_Witness ==
    \E c \in Calls :
        /\ ReturnedOk(c, "get")
        /\ calc[c].elapsed = 0
        /\ calc[c].delta_rx > 0

\* rate is the quotient diff / (elapsed / TicksPerSec) truncated to an
\* integer, the result type's maximum when the quotient exceeds it.
IsTruncatedQuotient(rate, diff, elapsed) ==
    IF diff * TicksPerSec >= (U64Max + 1) * elapsed
    THEN rate = U64Max
    ELSE /\ rate * elapsed <= diff * TicksPerSec
         /\ diff * TicksPerSec < (rate + 1) * elapsed

\* C5: with time elapsed and no counter below its stored value, the
\* returned rates are (current - stored) / elapsed seconds, truncated.
C5_RateIsTruncatedQuotient ==
    \A c \in Calls :
        ReturnedOk(c, "get") =>
            /\ calc[c].state = "done"
            /\ (calc[c].elapsed > 0 /\ calc[c].cur_rx >= calc[c].prev_rx) =>
                  IsTruncatedQuotient(StatsOf(c).network_rx_bytes,
                                      calc[c].cur_rx - calc[c].prev_rx,
                                      calc[c].elapsed)
            /\ (calc[c].elapsed > 0 /\ calc[c].cur_tx >= calc[c].prev_tx) =>
                  IsTruncatedQuotient(StatsOf(c).network_tx_bytes,
                                      calc[c].cur_tx - calc[c].prev_tx,
                                      calc[c].elapsed)

\* The example: stored rx 1000, current rx 3000, one second elapsed.
C5_Witness ==
    \E c \in Calls :
        /\ ReturnedOk(c, "get")
        /\ calc[c].prev_rx = 1000
        /\ calc[c].cur_rx = 3000
        /\ calc[c].elapsed = TicksPerSec
        /\ StatsOf(c).network_rx_bytes = 2000

\* A quotient that is not an integer was truncated.
C5_TruncationReached ==
    \E c \in Calls :
        /\ ReturnedOk(c, "get")
        /\ calc[c].elapsed > 0
        /\ calc[c].cur_tx >= calc[c].prev_tx
        /\ StatsOf(c).network_tx_bytes * calc[c].elapsed
               < (calc[c].cur_tx - calc[c].prev_tx) * TicksPerSec

\* The steps of a call that run with the sys guard held.
InSysSection(c) ==
    pc[c] \in {"refresh", "collect", "lock_net", "network", "net_write",
               "stats", "k_kill"}
ReadsSys(c) ==
    pc[c] \in {"collect", "lock_net", "network", "net_write", "stats"}

\* C6: from its refresh to its last read of the System handle a
\* get_processes call holds the sys lock alone, the facts it reads are those
\* of its own refresh, and the process list and SystemStats it returns are
\* both derived from that one reading.
C6_ConsistentView ==
    \A c \in Calls :
        /\ InSysSection(c) =>
              /\ holder["sys"] = c
              /\ \A d \in Calls \ {c} : ~InSysSection(d)
        /\ ReadsSys(c) => (sysOwner = c /\ sys = refreshed[c])
        /\ ReturnedOk(c, "get") =>
              /\ [i \in DOMAIN ProcessesOf(c) |->
                      << ProcessesOf(c)[i].pid, ProcessesOf(c)[i].memory_usage,
                         ProcessesOf(c)[i].cpu_usage >>]
                   = [i \in DOMAIN refreshed[c].procs |->
                        << refreshed[c].procs[i].pid,
                           refreshed[c].procs[i].memory,
                           refreshed[c].procs[i].cpu_usage >>]
              /\ calc[c].cur_rx = TotalReceived(refreshed[c].nets)
              /\ calc[c].cur_tx = TotalTransmitted(refreshed[c].nets)
              /\ StatsOf(c).cpu_usage = refreshed[c].cpus
              /\ StatsOf(c).memory_total = refreshed[c].mem.total
              /\ StatsOf(c).memory_used = refreshed[c].mem.used
              /\ StatsOf(c).disk_total_bytes
                     = DiskFold(refreshed[c].disks).total

\* One call has returned the view of its refresh while the other, after a
\* refresh that read something else, is still reading.
C6_Witness ==
    \E c, d \in Calls :
        /\ ReturnedOk(c, "get")
        /\ pc[d] = "stats"
        /\ refreshed[c] /= refreshed[d]
        /\ Len(ProcessesOf(c)) /= Len(processes_data[d])

\* C7: a get_processes call that finds a lock poisoned returns the error
\* string of that lock and nothing else, leaving the cache as it was; Ok is
\* returned only by the final merge, with the whole list and the stats.
LockFailure(c, at, lock, msg) ==
    (pc[c] = at /\ lock \in poisoned /\ pc'[c] /= pc[c]) =>
        /\ pc'[c] = "done"
        /\ result'[c] = [tag |-> "Err", msg |-> msg]
        /\ process_cache' = process_cache

C7_LockFailureReturnsError ==
    [][\A c \in Calls :
          /\ LockFailure(c, "lock_sys", "sys", "Failed to lock system state")
          /\ LockFailure(c, "lock_net", "net", "Failed to lock network state")
          /\ LockFailure(c, "lock_cache", "cache", "Failed to lock process cache")
          /\ (cmd'[c] = Get /\ result'[c].tag = "Ok" /\ result[c].tag /= "Ok") =>
                /\ pc[c] = "build"
                /\ Len(result'[c].value[1]) = Len(processes_data[c])
                /\ \A i \in DOMAIN result'[c].value[1] :
                      DOMAIN result'[c].value[1][i] = DOMAIN ProcessInfoOf(
                          processes_data[c][i], StaticInfoOf(processes_data[c][i]),
                          <<0, 0>>)
                /\ result'[c].value[2] = system_stats[c]
                /\ system_stats[c] /= NoStats]_vars

\* Both failures have been returned: one call by the sys lock, one by the
\* cache lock.
C7_Witness ==
    \E c, d \in Calls :
        /\ Returned(c, "get")
        /\ result[c] = Err("Failed to lock system state")
        /\ Returned(d, "get")
        /\ result[d] = Err("Failed to lock process cache")

\* C8: whenever a command has returned a lock-acquisition error, a later
\* call of the same command on that task returns Ok.
C8_RetryRecovers ==
    \A c \in Calls : \A o \in ConcurrentCommands :
        (pc[c] = "done" /\ cmd[c] = o /\ result[c].tag = "Err")
            ~> (pc[c] = "done" /\ cmd[c] = o /\ result[c].tag = "Ok")

\* C9: kill_process for a pid that is not in the process table returns
\* Ok(false), never an error.
C9_AbsentPidReturnsFalse ==
    \A c \in Calls :
        (Returned(c, "kill") /\ ~HasProcess(sys, cmd[c].pid)) =>
            result[c] = Ok(FALSE)

RECURSIVE SumOver(_, _)
SumOver(f, S) ==
    IF S = {} THEN 0
    ELSE LET x == CHOOSE x \in S : TRUE IN f[x] + SumOver(f, S \ {x})

\* C10: the disk totals of a returned SystemStats are the sums of total,
\* total - available and available over the disks mounted at "/" only.
C10_OnlyRootMounts ==
    \A c \in Calls :
        ReturnedOk(c, "get") =>
            LET disks == refreshed[c].disks
                roots == {i \in DOMAIN disks : disks[i].mount = "/"}
            IN /\ StatsOf(c).disk_total_bytes
                    = SumOver([i \in roots |-> disks[i].total], roots)
               /\ StatsOf(c).disk_used_bytes
                    = SumOver([i \in roots |-> disks[i].total - disks[i].avail],
                              roots)
               /\ StatsOf(c).disk_free_bytes
                    = SumOver([i \in roots |-> disks[i].avail], roots)

\* The example: disks at "/", "/data" and "/mnt/usb"; only "/" is counted.
C10_Witness ==
    \E c \in Calls :
        /\ ReturnedOk(c, "get")
        /\ refreshed[c].disks = DisksBase
        /\ StatsOf(c).disk_total_bytes = 100
        /\ StatsOf(c).disk_used_bytes = 60
        /\ StatsOf(c).disk_free_bytes = 40

\* C11: every SystemStats a get_processes call returns has memory_cached
\* 0, whatever total and used memory its refresh read (used above total
\* included).
C11_MemoryCachedIsZero ==
    \A c \in Calls :
        ReturnedOk(c, "get") => StatsOf(c).memory_cached = 0

\* A SystemStats was returned from a reading with used above total memory.
C11_Witness ==
    \E c \in Calls :
        /\ ReturnedOk(c, "get")
        /\ StatsOf(c).memory_used > StatsOf(c).memory_total
        /\ StatsOf(c).memory_free = Modulus - 2
        /\ StatsOf(c).memory_cached = 0

\* C12: in every returned list the status of each process is "Running"
\* for OS status Run, "Sleeping" for Sleep, "Idle" for Idle and "Unknown"
\* for any other variant, hence always one of these four strings.
C12_StatusMapping ==
    \A c \in Calls :
        ReturnedOk(c, "get") =>
            /\ Len(ProcessesOf(c)) = Len(refreshed[c].procs)
            /\ \A i \in DOMAIN ProcessesOf(c) :
                  LET os == refreshed[c].procs[i].status
                      str == ProcessesOf(c)[i].status
                  IN /\ os = "Run" => str = "Running"
                     /\ os = "Sleep" => str = "Sleeping"
                     /\ os = "Idle" => str = "Idle"
                     /\ os \notin {"Run", "Sleep", "Idle"} => str = "Unknown"
                     /\ str \in {"Running", "Sleeping", "Idle", "Unknown"}

\* A list was returned with a process in a status the match does not name,
\* after an earlier call had returned the sleeping init.
C12_Witness ==
    \E c \in Calls :
        /\ ReturnedOk(c, "get")
        /\ \E i \in DOMAIN ProcessesOf(c) :
              /\ refreshed[c].procs[i].status = "Zombie"
              /\ ProcessesOf(c)[i].status = "Unknown"
        /\ \E p \in DOMAIN firstSeen : firstSeen[p].name = "init"

\* A dispatched command that has neither returned nor unwound.
Running(c) == pc[c] \notin {"idle", "done", "panicked"}

\* C13: under fair scheduling every dispatched call comes to its end: it
\* never waits for a lock for ever, whatever the other task does.
C13_EveryCallCompletes ==
    \A c \in Calls : Running(c) ~> ~Running(c)

\* One call waits for the sys lock while the other holds it together with
\* the tracker lock, and a third lock has been poisoned meanwhile.
C13_Witness ==
    \E c, d \in Calls :
        /\ pc[c] \in {"lock_sys", "k_lock"}
        /\ pc[d] = "stats"
        /\ holder["sys"] = d
        /\ holder["net"] = d
        /\ "cache" \in poisoned

\* C14: a call asks for the sys lock holding no lock at all, for the
\* tracker lock holding sys only, and for the cache lock holding nothing; the
\* tracker guard lives inside the sys guard, the cache guard is never held
\* together with either, and is taken only after the sys section has
\* produced the SystemStats.
C14_LockOrdering ==
    \A c \in Calls :
        /\ pc[c] \in {"lock_sys", "k_lock"} => HeldBy(c) = {}
        /\ pc[c] = "lock_net" => HeldBy(c) = {"sys"}
        /\ pc[c] = "lock_cache" => HeldBy(c) = {}
        /\ holder["net"] = c => holder["sys"] = c
        /\ holder["cache"] = c =>
              /\ HeldBy(c) = {"cache"}
              /\ cmd[c] = Get
              /\ system_stats[c] /= NoStats

\* One call holds the cache guard while the other holds the sys and the
\* tracker guards.
C14_Witness ==
    \E c, d \in Calls :
        /\ holder["cache"] = c
        /\ holder["sys"] = d
        /\ holder["net"] = d
        /\ pc[d] = "network"

\* Between its read of the stored triple and its write of the new one a
\* call holds the sys and the tracker guards, the stored triple is still
\* the one it read, and no other call is reading or writing it; the stored
\* counters are always the two totals of one reading.
TrackerUpdateIsAtomic ==
    /\ \A c \in Calls :
          pc[c] = "net_write" =>
              /\ holder["sys"] = c
              /\ holder["net"] = c
              /\ last_network_update[2] = calc[c].prev_rx
              /\ last_network_update[3] = calc[c].prev_tx
              /\ last_network_update[1] = current_sample[c][1] - calc[c].elapsed
              /\ \A d \in Calls \ {c} : pc[d] \notin {"network", "net_write"}
    /\ \E r \in ConcurrentReadings :
          /\ last_network_update[2] = TotalReceived(r.nets)
          /\ last_network_update[3] = TotalTransmitted(r.nets)

\* C15: every get_processes call that has come to its end has written the
\* tracker (once: the write is the single step that marks the computation
\* done), and the read and the write of a call are atomic.
C15_UpdatedOnceAtomically ==
    /\ \A c \in Calls :
          (cmd[c] = Get /\ pc[c] \in {"done", "panicked"}) =>
              calc[c].state = "done"
    /\ TrackerUpdateIsAtomic

\* C16: the deltas used by all tracker updates so far, in the order the
\* calls held the sys lock, add up (in u64 arithmetic, and exactly while no
\* counter has gone back) to the stored counters minus the counters stored
\* at startup; a call that has read the tracker and not yet written it still
\* faces the triple it differenced against.
C16_DeltasSumToTotal ==
    /\ deltaSum[1] = WrappingSub(last_network_update[2], initial[1])
    /\ deltaSum[2] = WrappingSub(last_network_update[3], initial[2])
    /\ monotonic =>
          /\ deltaSum[1] = last_network_update[2] - initial[1]
          /\ deltaSum[2] = last_network_update[3] - initial[2]
    /\ \A c \in Calls :
          pc[c] = "net_write" =>
              /\ calc[c].prev_rx = last_network_update[2]
              /\ calc[c].prev_tx = last_network_update[3]
              /\ calc[c].delta_rx = WrappingSub(calc[c].cur_rx, calc[c].prev_rx)
              /\ calc[c].delta_tx = WrappingSub(calc[c].cur_tx, calc[c].prev_tx)

\* Two overlapping calls have split a growth of the counters: the second
\* differenced against what the first stored, and each got a share.
C16_Witness ==
    \E c, d \in Calls :
        /\ c /= d
        /\ monotonic
        /\ pc[c] \in {"lock_cache", "sample", "build"}
        /\ pc[d] = "stats"
        /\ calc[c].state = "done"
        /\ calc[d].state = "done"
        /\ calc[c].delta_rx > 0
        /\ calc[d].delta_rx > 0
        /\ calc[d].prev_rx = calc[c].cur_rx
        /\ deltaSum[1] = calc[c].delta_rx + calc[d].delta_rx
        /\ deltaSum[1] = last_network_update[2] - initial[1]

\* C17: a call runs the sampler at most once, only after its sys section
\* (holding neither the sys nor the tracker guard), and exactly once by the
\* time it merges; in the list it returns, a process whose pid the sampler's
\* mapping lacks has network_rx = network_tx = 0, any other the mapped pair.
C17_SampledOnceOutsideSysLock ==
    \A c \in Calls :
        /\ Len(sampled[c]) <= 1
        /\ pc[c] = "sample" =>
              /\ sampled[c] = <<>>
              /\ holder["sys"] /= c
              /\ holder["net"] /= c
              /\ system_stats[c] /= NoStats
        /\ sampled[c] /= <<>> => pc[c] \in {"build", "done", "panicked"}
        /\ pc[c] = "build" =>
              /\ Len(sampled[c]) = 1
              /\ holder["sys"] /= c
        /\ ReturnedOk(c, "get") =>
              /\ Len(sampled[c]) = 1
              /\ \A i \in DOMAIN ProcessesOf(c) :
                    LET p == ProcessesOf(c)[i]
                        mapping == sampled[c][1]
                    IN IF p.pid \in DOMAIN mapping
                       THEN << p.network_rx, p.network_tx >> = mapping[p.pid]
                       ELSE p.network_rx = 0 /\ p.network_tx = 0

\* A call returned a list with one process the sampler had mapped and one
\* it had not, while the other call, past its own sampler run, was merging.
C17_Witness ==
    \E c, d \in Calls :
        /\ ReturnedOk(c, "get")
        /\ \E i, j \in DOMAIN ProcessesOf(c) :
              /\ ProcessesOf(c)[i].pid \in DOMAIN sampled[c][1]
              /\ ProcessesOf(c)[i].network_rx = 10
              /\ ProcessesOf(c)[i].network_tx = 20
              /\ ProcessesOf(c)[j].pid \notin DOMAIN sampled[c][1]
              /\ ProcessesOf(c)[j].network_rx = 0
        /\ pc[d] = "build"
        /\ Len(sampled[d]) = 1

\* C18: no step of any get_processes or kill_process call removes a pid
\* from the cache or changes the entry stored for it.
C18_CacheOnlyGrows ==
    [][\A p \in DOMAIN process_cache :
          /\ p \in DOMAIN process_cache'
          /\ process_cache'[p] = process_cache[p]]_vars

\* pid 2 was killed and is gone from the table a later call returned, pid 1
\* has another name there; the cache still holds both as first seen.
C18_Witness ==
    \E c, d \in Calls :
        /\ Returned(c, "kill")
        /\ result[c] = Ok(TRUE)
        /\ ReturnedOk(d, "get")
        /\ refreshed[d].procs = TableRenamed
        /\ sys = refreshed[d]
        /\ DOMAIN process_cache = {1, 2}
        /\ process_cache[1].name = "init"
        /\ process_cache[2].name = "worker"

\* A step of task c running kill_process (its dispatch included).
KillStep(c) ==
    /\ pc'[c] /= pc[c]
    /\ \/ pc[c] \in {"k_lock", "k_kill"}
       \/ pc'[c] = "k_lock"

\* C19: no step of a kill_process call changes the cache, the tracker triple
\* or the system facts (which only the refresh of a get_processes call
\* changes); it returns an error only when the sys lock is poisoned, true
\* only for a pid that is in the process table as it stands, and false for
\* one that is not.
C19_KillChangesNoSharedState ==
    [][/\ \A c \in Calls :
             KillStep(c) =>
                 /\ process_cache' = process_cache
                 /\ last_network_update' = last_network_update
                 /\ sys' = sys
                 /\ (pc'[c] = "done" /\ result'[c].tag = "Err") =>
                       /\ "sys" \in poisoned
                       /\ result'[c].msg = "Failed to lock system state"
                 /\ (pc'[c] = "done" /\ result'[c].tag = "Ok") =>
                       /\ result'[c].value \in BOOLEAN
                       /\ result'[c].value =>
                             \E i \in DOMAIN sys.procs :
                                 sys.procs[i].pid = cmd[c].pid
       /\ sys' /= sys => \E c \in Calls : pc[c] = "refresh" /\ cmd[c] = Get]_vars

\* kill_process returned false for a pid that the table of the last refresh
\* (by the other task's get_processes) no longer lists, with the cache
\* filled and the tracker moved on from its startup value.
C19_Witness ==
    \E c, d \in Calls :
        /\ Returned(c, "kill")
        /\ result[c] = Ok(FALSE)
        /\ sysOwner = d
        /\ \A i \in DOMAIN sys.procs : sys.procs[i].pid /= cmd[c].pid
        /\ cmd[c].pid \in DOMAIN process_cache
        /\ last_network_update[2] /= initial[1]

\* What a successful get_processes call has returned: one snapshot per
\* process of the table its own refresh read, in the same order and with the
\* same pids, none twice, each without a thread count and with its pid in
\* the cache.
OneSnapshotPerProcess(c) ==
    LET list == ProcessesOf(c)
        table == refreshed[c].procs
    IN /\ Len(list) = Len(table)
       /\ \A i \in DOMAIN list :
             /\ list[i].pid = table[i].pid
             /\ list[i].threads = None
             /\ list[i].pid \in DOMAIN process_cache
       /\ \A i, j \in DOMAIN list : list[i].pid = list[j].pid => i = j

\* C20: every successful get_processes call has returned exactly one
\* snapshot per process of its own refresh, all of them cached; the cache
\* changes only in the step that returns Ok, so that a call returning an
\* error has left it unchanged.
C20_OneSnapshotPerProcess ==
    /\ [](\A c \in Calls : ReturnedOk(c, "get") => OneSnapshotPerProcess(c))
    /\ [][\A c \in Calls :
             /\ (cmd'[c] = Get /\ pc'[c] = "done" /\ pc[c] /= "done"
                     /\ result'[c].tag = "Err") =>
                   process_cache' = process_cache
             /\ (pc'[c] /= pc[c] /\ process_cache' /= process_cache) =>
                   /\ pc[c] = "build"
                   /\ result'[c].tag = "Ok"]_vars

\* One call returned both processes of its refresh although the other
\* task's refresh has since read a table of one, and the other task's call
\* returned an error.
C20_Witness ==
    \E c, d \in Calls :
        /\ ReturnedOk(c, "get")
        /\ refreshed[c].procs = TableBoth
        /\ Len(ProcessesOf(c)) = 2
        /\ sys.procs = TableRenamed
        /\ DOMAIN process_cache = {1, 2}
        /\ Returned(d, "get")
        /\ result[d].tag = "Err"

====
